---- MODULE Spec2Model ----
(***************************************************************************)
(* Model of remoteconfig.go: loading a JSON document into a value graph    *)
(* and validating it by reflection.  The recursion of                      *)
(* validateConfigWithReflection is modelled as an explicit call stack, one *)
(* step per dispatcher call, handler entry, loop iteration and return.     *)
(***************************************************************************)
EXTENDS Naturals, Sequences, FiniteSets

\* Longest slice, largest map and largest field list of the generated graphs.
MaxLen == 2
\* Number of calls made on the same decoded graph.
MaxRuns == 2

(***************************************************************************)
(* The value graph: what reflect.ValueOf / reflect.TypeOf see.             *)
(***************************************************************************)

\* reflect.String
Str(s) == [kind |-> "String", s |-> s]
\* any kind the switch of validateConfigWithReflection has no case for
Oth(n) == [kind |-> "Other", n |-> n]
\* reflect.Slice / reflect.Array; a nil slice has Len() = 0
Slice(es) == [kind |-> "Slice", nil |-> FALSE, elems |-> es]
NilSlice == [kind |-> "Slice", nil |-> TRUE, elems |-> << >>]
\* reflect.Map: vals is a function from the keys to the values
Map(f) == [kind |-> "Map", nil |-> FALSE, vals |-> f]
\* reflect.Struct.  impl says whether the struct type has a Validate method
\* and what it returns on this value: "none", "pass" or "fail".
Struct(name, impl, fields) ==
    [kind |-> "Struct", name |-> name, impl |-> impl, fields |-> fields]
\* a struct field: its name, its `remoteconfig` tag (a list of tokens) and
\* its current value
Field(name, tag, val) == [name |-> name, tag |-> tag, val |-> val]

\* reflect.Type.Name() of a value's type: defined types have a name,
\* unnamed composite types (slices, maps, pointers) have the empty name
TypeName(v) ==
    CASE v.kind = "String" -> "string"
      [] v.kind = "Other" -> "int"
      [] v.kind = "Struct" -> v.name
      [] OTHER -> ""

\* the Validate method of the type a pointer points to, as seen through the
\* pointer: the method set of *T holds the methods of T
ImplOf(v) == IF v.kind = "Struct" THEN v.impl ELSE "none"

\* reflect.Ptr: elem is the pointed-to value (none when nil), tname is
\* typeOf.Elem().Name(), vres the outcome of Validate on this pointer
\* ("none" when the pointer type does not implement Validater)
PtrTo(v) == [kind |-> "Ptr", nil |-> FALSE, elem |-> <<v>>,
             tname |-> TypeName(v), vres |-> ImplOf(v)]
NilPtr(tname, vres) == [kind |-> "Ptr", nil |-> TRUE, elem |-> << >>,
                        tname |-> tname, vres |-> vres]

(***************************************************************************)
(* Errors.  A Go error made by fmt.Errorf is its message: a list of        *)
(* segments, the outermost context first and the original cause last.      *)
(***************************************************************************)

\* one formatted segment of a message: which format string, and its %s operand
Seg(f, arg) == [fmt |-> f, arg |-> arg]
\* fmt.Errorf("<f> %s ..., %s", arg, err): the new text precedes the wrapped one
Errorf(f, arg, inner) == <<Seg(f, arg)>> \o inner

\* the messages of the errors the handlers create
FieldNotSet(f) == <<Seg("Field: %s, not set", f.name)>>
SliceEmpty(v) == <<Seg("Slice/Array Field: %s, is empty", TypeName(v))>>
MapEmpty(v) == <<Seg("Map Field: %s, is empty", TypeName(v))>>
StringEmpty(v) == <<Seg("String Field: %s, contains an empty string", TypeName(v))>>
\* the message of the error a failing Validate method returns
ValidateError == <<Seg("Validate() error", "")>>
ValidaterFailed(p, m) == Errorf("Validater Field: %s, failed to validate with error, %s", p.tname, m)
SubFieldFailed(p, m) == Errorf("Sub Field of %s, failed to validate with error, %s", p.tname, m)

\* what a call returns: nil, an error, or it does not return (panic)
RetNil == [st |-> "nil", msg |-> << >>]
RetErr(m) == [st |-> "err", msg |-> m]
RetPanic == [st |-> "panic", msg |-> << >>]
\* no callee has returned to the running frame yet
NoRet == [st |-> "none", msg |-> << >>]

\* strings.Contains(s, substr) on texts given as lists of tokens: substr
\* occurs somewhere in s as a contiguous run
Contains(s, substr) ==
    \E k \in 0..Len(s) : k + Len(substr) <= Len(s) /\ SubSeq(s, k + 1, k + Len(substr)) = substr

\* readTags: the TagOptions of a struct field
readTags(typeField) == [Optional |-> Contains(typeField.tag, <<"optional">>)]

\* reflect.Value.IsNil is defined for the nilable kinds only
Nilable(v) == v.kind \in {"Ptr", "Slice", "Map"}
IsNil(v) == v.nil

\* Implements that never finds the method
ImplementsNever(p) == FALSE

\* typeOf.Implements(validaterType) for a pointer type
Implements(p) == p.vres # "none"

VARIABLES
    doc,          \* the graph the document decodes to (fixed per behaviour)
    pc,           \* "idle", "download", "validate", "done"
    call,         \* entry of the running call: "none", "load" or "direct"
    decoded,      \* state of configStruct: "no", "partial" or "full"
    stack,        \* call stack of the engine, the running frame last
    ret,          \* value returned to the running frame by its last callee
    result,       \* what the finished call returned to its caller
    visited,      \* values passed to validateConfigWithReflection, in order
    validated,    \* pointers whose Validate method was invoked, in order
    run,          \* number of the current call
    prev          \* result of the previous call on the same graph

vars == <<doc, pc, call, decoded, stack, ret, result, visited, validated, run, prev>>

\* a call frame: the running function, its argument, its loop index
\* (0-based, as in the source) and, for a map, the keys not yet visited
Frame(h, v, i, keys) == [h |-> h, v |-> v, i |-> i, keys |-> keys]
Call(v) == Frame("validate", v, 0, {})

Top == stack[Len(stack)]
Rest == SubSeq(stack, 1, Len(stack) - 1)
Running(h) == pc = "validate" /\ stack # << >> /\ Top.h = h

\* the running frame returns r to its caller
Return(r) == /\ stack' = Rest
             /\ ret' = r
\* the running frame calls validateConfigWithReflection(v) and waits at index i
Recurse(i, v) == /\ stack' = Rest \o <<[Top EXCEPT !.i = i], Call(v)>>
                 /\ ret' = NoRet
\* a panic unwinds every frame
Panic == /\ stack' = << >>
         /\ ret' = RetPanic

EngineUnchanged == UNCHANGED <<doc, pc, call, decoded, result, run, prev>>

(***************************************************************************)
(* validateConfigWithReflection: dispatch on the kind of the value.        *)
(***************************************************************************)

\* the handler the switch selects for a kind; "" when no case matches
HandlerOf(kind) ==
    CASE kind = "Ptr" -> "handlePtr"
      [] kind = "Struct" -> "handleStruct"
      [] kind = "Slice" -> "handleArraySlice"
      [] kind = "Map" -> "handleMap"
      [] kind = "String" -> "handleString"
      [] OTHER -> ""

\* valueOf.MapKeys()
MapKeys(v) == IF v.kind = "Map" THEN DOMAIN v.vals ELSE {}

\* the dispatcher rejecting the zero value of the other kinds
validateRejectsZero ==
    /\ Running("validate")
    /\ visited' = Append(visited, Top.v)
    /\ IF HandlerOf(Top.v.kind) # ""
       THEN /\ stack' = Rest \o <<Frame(HandlerOf(Top.v.kind), Top.v, 0, MapKeys(Top.v))>>
            /\ ret' = NoRet
       ELSE IF Top.v.n = 0
            THEN Return(RetErr(<<Seg("Field: %s, is zero", TypeName(Top.v))>>))
            ELSE Return(RetNil)
    /\ UNCHANGED validated
    /\ EngineUnchanged

\* the dispatcher calling Validate on a struct passed by value
validateStructValue ==
    /\ Running("validate")
    /\ visited' = Append(visited, Top.v)
    /\ IF Top.v.kind = "Struct" /\ Top.v.impl # "none"
       THEN /\ validated' = Append(validated, Top.v)
            /\ Return(IF Top.v.impl = "fail"
                      THEN RetErr(ValidaterFailed([tname |-> Top.v.name], ValidateError))
                      ELSE RetNil)
       ELSE /\ validated' = validated
            /\ IF HandlerOf(Top.v.kind) # ""
               THEN /\ stack' = Rest \o <<Frame(HandlerOf(Top.v.kind), Top.v, 0, MapKeys(Top.v))>>
                    /\ ret' = NoRet
               ELSE Return(RetNil)
    /\ EngineUnchanged

\* `return handleX(typeOf, valueOf)`: the handler takes the place of the
\* dispatcher's frame; a value of any other kind returns nil at once
validateConfigWithReflection ==
    /\ Running("validate")
    /\ visited' = Append(visited, Top.v)
    /\ IF HandlerOf(Top.v.kind) # ""
       THEN /\ stack' = Rest \o <<Frame(HandlerOf(Top.v.kind), Top.v, 0, MapKeys(Top.v))>>
            /\ ret' = NoRet
       ELSE Return(RetNil)
    /\ UNCHANGED validated
    /\ EngineUnchanged

(***************************************************************************)
(* handlePtr                                                               *)
(***************************************************************************)

\* valueOf.Interface().(Validater).Validate() and what handlePtr returns for it
ValidaterResult(p) ==
    CASE p.vres = "fail" ->
            RetErr(ValidaterFailed(p, ValidateError))
      [] p.vres = "panic" -> RetPanic
      [] OTHER -> RetNil

\* SubFieldResult that returns the error as it got it
SubFieldResultBare(p, r) == IF r.st = "err" THEN r ELSE RetNil

\* the error handlePtr returns when the pointed-to value fails
SubFieldResult(p, r) ==
    IF r.st = "err"
    THEN RetErr(SubFieldFailed(p, r.msg))
    ELSE RetNil

\* the pointer type implements Validater: Validate is the only validation
handlePtrValidater ==
    /\ Running("handlePtr")
    /\ Implements(Top.v)
    /\ validated' = Append(validated, Top.v)
    /\ IF ValidaterResult(Top.v).st = "panic" THEN Panic ELSE Return(ValidaterResult(Top.v))
    /\ UNCHANGED visited
    /\ EngineUnchanged

\* otherwise validate valueOf.Elem().Interface(); Elem() of a nil pointer is
\* the zero Value, whose Interface() panics
handlePtrElem ==
    /\ Running("handlePtr")
    /\ ~Implements(Top.v)
    /\ ret.st = "none"
    /\ IF IsNil(Top.v) THEN Panic ELSE Recurse(1, Top.v.elem[1])
    /\ UNCHANGED <<visited, validated>>
    /\ EngineUnchanged

handlePtrReturn ==
    /\ Running("handlePtr")
    /\ ~Implements(Top.v)
    /\ ret.st # "none"
    /\ Return(SubFieldResult(Top.v, ret))
    /\ UNCHANGED <<visited, validated>>
    /\ EngineUnchanged

(***************************************************************************)
(* handleStruct                                                            *)
(***************************************************************************)

NumField(v) == Len(v.fields)

\* FieldCase without the tag: every nil field is reported
FieldCaseNoTags(f) ==
    CASE ~Nilable(f.val) -> "panic"
      [] IsNil(f.val) -> "missing"
      [] OTHER -> "validate"

\* what one iteration of the loop does with field f
FieldCase(f) ==
    CASE ~Nilable(f.val) -> "panic"
      [] IsNil(f.val) /\ ~readTags(f).Optional -> "missing"
      [] IsNil(f.val) /\ readTags(f).Optional -> "continue"
      [] OTHER -> "validate"

handleStructField ==
    /\ Running("handleStruct")
    /\ ret.st = "none"
    /\ Top.i < NumField(Top.v)
    /\ LET f == Top.v.fields[Top.i + 1] IN
         CASE FieldCase(f) = "panic" -> Panic
           [] FieldCase(f) = "missing" -> Return(RetErr(FieldNotSet(f)))
           [] FieldCase(f) = "continue" ->
                /\ stack' = Rest \o <<[Top EXCEPT !.i = Top.i + 1]>>
                /\ ret' = NoRet
           [] OTHER -> Recurse(Top.i, f.val)
    /\ UNCHANGED <<visited, validated>>
    /\ EngineUnchanged

\* handleStructNext that goes on with the next field after an error
handleStructNextKeepsGoing ==
    /\ Running("handleStruct")
    /\ ret.st # "none"
    /\ stack' = Rest \o <<[Top EXCEPT !.i = Top.i + 1]>>
    /\ ret' = NoRet
    /\ UNCHANGED <<visited, validated>>
    /\ EngineUnchanged

\* the recursive call on a field returned: an error is returned as it is
handleStructNext ==
    /\ Running("handleStruct")
    /\ ret.st # "none"
    /\ IF ret.st = "err"
       THEN Return(ret)
       ELSE /\ stack' = Rest \o <<[Top EXCEPT !.i = Top.i + 1]>>
            /\ ret' = NoRet
    /\ UNCHANGED <<visited, validated>>
    /\ EngineUnchanged

handleStructEnd ==
    /\ Running("handleStruct")
    /\ ret.st = "none"
    /\ Top.i >= NumField(Top.v)
    /\ Return(RetNil)
    /\ UNCHANGED <<visited, validated>>
    /\ EngineUnchanged

(***************************************************************************)
(* handleArraySlice, handleMap, handleString                               *)
(***************************************************************************)

\* valueOf.Len() of a slice, an array or a map
LenOf(v) == IF v.kind = "Map" THEN Cardinality(DOMAIN v.vals) ELSE Len(v.elems)

\* IsEmpty with the comparison `< 0`
IsEmptyNever(v) == LenOf(v) < 0

\* `valueOf.Len() <= 0`
IsEmpty(v) == LenOf(v) <= 0

handleArraySliceEmpty ==
    /\ Running("handleArraySlice")
    /\ IsEmpty(Top.v)
    /\ Return(RetErr(SliceEmpty(Top.v)))
    /\ UNCHANGED <<visited, validated>>
    /\ EngineUnchanged

handleArraySliceElem ==
    /\ Running("handleArraySlice")
    /\ ~IsEmpty(Top.v)
    /\ ret.st = "none"
    /\ Top.i < LenOf(Top.v)
    /\ Recurse(Top.i, Top.v.elems[Top.i + 1])
    /\ UNCHANGED <<visited, validated>>
    /\ EngineUnchanged

handleArraySliceNext ==
    /\ Running("handleArraySlice")
    /\ ret.st # "none"
    /\ IF ret.st = "err"
       THEN Return(ret)
       ELSE /\ stack' = Rest \o <<[Top EXCEPT !.i = Top.i + 1]>>
            /\ ret' = NoRet
    /\ UNCHANGED <<visited, validated>>
    /\ EngineUnchanged

handleArraySliceEnd ==
    /\ Running("handleArraySlice")
    /\ ~IsEmpty(Top.v)
    /\ ret.st = "none"
    /\ Top.i >= LenOf(Top.v)
    /\ Return(RetNil)
    /\ UNCHANGED <<visited, validated>>
    /\ EngineUnchanged

handleMapEmpty ==
    /\ Running("handleMap")
    /\ IsEmpty(Top.v)
    /\ Return(RetErr(MapEmpty(Top.v)))
    /\ UNCHANGED <<visited, validated>>
    /\ EngineUnchanged

\* `for _, k := range valueOf.MapKeys()`: MapKeys returns the keys in no
\* specified order, so the next key is any key not yet visited
handleMapElem ==
    /\ Running("handleMap")
    /\ ~IsEmpty(Top.v)
    /\ ret.st = "none"
    /\ \E k \in Top.keys :
         /\ stack' = Rest \o <<[Top EXCEPT !.keys = Top.keys \ {k}], Call(Top.v.vals[k])>>
         /\ ret' = NoRet
    /\ UNCHANGED <<visited, validated>>
    /\ EngineUnchanged

\* handleMapNext that returns after the first value
handleMapNextFirstOnly ==
    /\ Running("handleMap")
    /\ ret.st # "none"
    /\ Return(ret)
    /\ UNCHANGED <<visited, validated>>
    /\ EngineUnchanged

handleMapNext ==
    /\ Running("handleMap")
    /\ ret.st # "none"
    /\ IF ret.st = "err"
       THEN Return(ret)
       ELSE /\ stack' = stack
            /\ ret' = NoRet
    /\ UNCHANGED <<visited, validated>>
    /\ EngineUnchanged

handleMapEnd ==
    /\ Running("handleMap")
    /\ ~IsEmpty(Top.v)
    /\ ret.st = "none"
    /\ Top.keys = {}
    /\ Return(RetNil)
    /\ UNCHANGED <<visited, validated>>
    /\ EngineUnchanged

\* StringResult that takes a blank string for an empty one
StringResultTrims(v) ==
    IF v.s \in {"", " "}
    THEN RetErr(StringEmpty(v))
    ELSE RetNil

\* `valueOf.Interface().(string) == ""`
StringResult(v) ==
    IF v.s = ""
    THEN RetErr(StringEmpty(v))
    ELSE RetNil

handleString ==
    /\ Running("handleString")
    /\ Return(StringResult(Top.v))
    /\ UNCHANGED <<visited, validated>>
    /\ EngineUnchanged

(***************************************************************************)
(* The callers: LoadConfigFromS3, DownloadJSONValidate and a call of the   *)
(* engine on a value of any kind.                                          *)
(***************************************************************************)

\* json.Decoder.Decode stores into a non-nil pointer only
Decodable(c) == c.kind = "Ptr" /\ ~c.nil

\* what can happen between http.Get and the end of dec.Decode
Outcomes == {"transport error", "status not OK", "decode error", "decoded"}

\* BuildSignedS3URL fails, or DownloadJSONValidate(signedURL, configStruct) runs
LoadConfigFromS3 ==
    /\ pc = "idle"
    /\ call' = "load"
    /\ \E signed \in BOOLEAN :
         IF signed
         THEN pc' = "download" /\ result' = NoRet
         ELSE pc' = "done" /\ result' = RetErr(<<Seg("BuildSignedS3URL error", "")>>)
    /\ UNCHANGED <<doc, decoded, stack, ret, visited, validated, run, prev>>

\* DownloadJSONValidate that drops the error of dec.Decode
DownloadIgnoresDecodeError ==
    /\ pc = "download"
    /\ \E o \in Outcomes :
         CASE o = "transport error" ->
                /\ pc' = "done"
                /\ result' = RetErr(<<Seg("http.Get error", "")>>)
                /\ UNCHANGED <<decoded, stack>>
           [] o = "status not OK" ->
                /\ pc' = "done"
                /\ result' = RetErr(<<Seg("Download of JSON failed, URL = %s, Response Code = %d", "")>>)
                /\ UNCHANGED <<decoded, stack>>
           [] o = "decode error" ->
                /\ pc' = "validate"
                /\ decoded' = "partial"
                /\ stack' = <<Call(doc)>>
                /\ UNCHANGED result
           [] OTHER ->
                /\ Decodable(doc)
                /\ pc' = "validate"
                /\ decoded' = "full"
                /\ stack' = <<Call(doc)>>
                /\ UNCHANGED result
    /\ UNCHANGED <<doc, call, ret, visited, validated, run, prev>>

\* http.Get, the status check and the decode; validation starts only when
\* all three succeeded
DownloadJSONValidate ==
    /\ pc = "download"
    /\ \E o \in Outcomes :
         CASE o = "transport error" ->
                /\ pc' = "done"
                /\ result' = RetErr(<<Seg("http.Get error", "")>>)
                /\ UNCHANGED <<decoded, stack>>
           [] o = "status not OK" ->
                /\ pc' = "done"
                /\ result' = RetErr(<<Seg("Download of JSON failed, URL = %s, Response Code = %d", "")>>)
                /\ UNCHANGED <<decoded, stack>>
           [] o = "decode error" ->
                /\ pc' = "done"
                /\ result' = RetErr(<<Seg("Failed to decode JSON, with error, %s", "")>>)
                /\ decoded' = "partial"
                /\ UNCHANGED stack
           [] OTHER ->
                /\ Decodable(doc)
                /\ pc' = "validate"
                /\ decoded' = "full"
                /\ stack' = <<Call(doc)>>
                /\ UNCHANGED result
    /\ UNCHANGED <<doc, call, ret, visited, validated, run, prev>>

\* validateConfigWithReflection(c) called on the graph itself
validateCall ==
    /\ pc = "idle"
    /\ call' = "direct"
    /\ pc' = "validate"
    /\ stack' = <<Call(doc)>>
    /\ UNCHANGED <<doc, decoded, ret, result, visited, validated, run, prev>>

\* the outermost validateConfigWithReflection returned (or panicked)
validateReturn ==
    /\ pc = "validate"
    /\ stack = << >>
    /\ pc' = "done"
    /\ result' = ret
    /\ UNCHANGED <<doc, call, decoded, stack, ret, visited, validated, run, prev>>

\* the caller makes another call on the same document
NextCall ==
    /\ pc = "done"
    /\ run < MaxRuns
    /\ run' = run + 1
    /\ prev' = IF visited # << >> THEN result ELSE prev
    /\ pc' = "idle"
    /\ call' = "none"
    /\ decoded' = "no"
    /\ stack' = << >>
    /\ ret' = NoRet
    /\ result' = NoRet
    /\ visited' = << >>
    /\ validated' = << >>
    /\ UNCHANGED doc

(***************************************************************************)
(* The graphs the model is run on.                                         *)
(***************************************************************************)

\* all lists over S of length lo..hi
ListsOf(S, lo, hi) == UNION {[1..k -> S] : k \in lo..hi}

KeyName == <<"k1", "k2", "k3", "k4">>
FieldName == <<"F1", "F2", "F3", "F4">>
\* all maps over S with lo..hi entries
MapsOf(S, lo, hi) == UNION {[{KeyName[j] : j \in 1..k} -> S] : k \in lo..hi}

\* outcomes of a type's Validate method: the type has none, it passes, it fails
Impls == {"none", "pass", "fail"}
\* `remoteconfig` tags
Tags == {<< >>, <<"optional">>}
OtherTags == {<<"required">>, <<"omitempty", ",", "optional">>, <<"optional", ",", "omitempty">>}

\* struct values named name whose fields are lists of <<tag, value>> of FS
StructsOf(name, I, FS) ==
    {Struct(name, impl, [j \in DOMAIN fs |-> Field(FieldName[j], fs[j][1], fs[j][2])]) :
        impl \in I, fs \in ListsOf(FS, 0, MaxLen)}

Leaves == {Str(""), Str("a"), Str(" "), Oth(0), Oth(1)}
Elems == {Str(""), Str("a"), Str(" "), Oth(0)}
PtrElems == {PtrTo(Str("")), PtrTo(Str("a")), NilPtr("string", "none")}

Collections(S, lo) ==
    {Slice(es) : es \in ListsOf(S, lo, MaxLen)} \cup {Map(f) : f \in MapsOf(S, lo, MaxLen)}

\* fields of an Inner struct; Str("a") is a field of a kind that is not nilable
InnerFields ==
    (Tags \X {NilPtr("string", "none"), PtrTo(Str("")), Slice(<< >>)})
        \cup ({<< >>} \X {PtrTo(Str("a")), PtrTo(Oth(0)), NilSlice, Str("a")})
InnerStructs == StructsOf("Inner", Impls, InnerFields)
TaggedStructs == StructsOf("Tagged", {"none"}, OtherTags \X {NilPtr("string", "none")})

GoodInner(impl) == Struct("Inner", impl, <<Field("F1", << >>, PtrTo(Str("a")))>>)
BadInner(impl) == Struct("Inner", impl, <<Field("F1", << >>, PtrTo(Str("")))>>)
InnerSample == {GoodInner(i) : i \in Impls} \cup {BadInner(i) : i \in Impls}
InnerPtrs ==
    {PtrTo(GoodInner("none")), PtrTo(BadInner("none")), PtrTo(GoodInner("fail")),
     PtrTo(BadInner("pass")), NilPtr("Inner", "none"), NilPtr("Inner", "panic")}

OuterFields ==
    (Tags \X {NilPtr("Inner", "none"), PtrTo(BadInner("none"))})
        \cup ({<< >>} \X {PtrTo(Str("a")), PtrTo(GoodInner("none")), PtrTo(GoodInner("fail")),
                          PtrTo(BadInner("pass")), Slice(<<BadInner("fail")>>)})
OuterStructs == StructsOf("Outer", Impls, OuterFields)

ByValue ==
    Leaves \cup Collections(Elems, 0) \cup Collections(PtrElems, 1)
           \cup Collections(InnerSample, 1) \cup Collections(InnerPtrs, 1)
           \cup InnerStructs \cup TaggedStructs

Pointers == {PtrTo(x) : x \in ByValue \cup OuterStructs}

Graphs ==
    ByValue \cup Pointers \cup {PtrTo(p) : p \in {PtrTo(x) : x \in Leaves \cup InnerSample}}
            \cup {NilPtr("Outer", r) : r \in {"none", "pass", "panic"}}

Init ==
    /\ doc \in Graphs
    /\ pc = "idle"
    /\ call = "none"
    /\ decoded = "no"
    /\ stack = << >>
    /\ ret = NoRet
    /\ result = NoRet
    /\ visited = << >>
    /\ validated = << >>
    /\ run = 1
    /\ prev = NoRet

Next ==
    \/ LoadConfigFromS3
    \/ DownloadJSONValidate
    \/ validateCall
    \/ validateReturn
    \/ NextCall
    \/ validateConfigWithReflection
    \/ handlePtrValidater
    \/ handlePtrElem
    \/ handlePtrReturn
    \/ handleStructField
    \/ handleStructNext
    \/ handleStructEnd
    \/ handleArraySliceEmpty
    \/ handleArraySliceElem
    \/ handleArraySliceNext
    \/ handleArraySliceEnd
    \/ handleMapEmpty
    \/ handleMapElem
    \/ handleMapNext
    \/ handleMapEnd
    \/ handleString

Spec == Init /\ [][Next]_vars

(***************************************************************************)
(* Properties.                                                             *)
(***************************************************************************)

\* the engine is at the head of the loop of handleStruct, before field Top.i
AtField == Running("handleStruct") /\ ret.st = "none" /\ Top.i < NumField(Top.v)
CurField == Top.v.fields[Top.i + 1]
\* the field's tag holds the annotation `optional`
Annotated(f) == \E k \in DOMAIN f.tag : f.tag[k] = "optional"
\* the original cause of a failed call: the last segment of the error's
\* message, or the panic
PanicCause == Seg("panic", "")
Cause(r) == IF r.st = "panic" THEN PanicCause ELSE r.msg[Len(r.msg)]
Failed(r) == r.st \in {"err", "panic"}
\* some call of the engine has been made in the current call
EngineRan == visited # << >>

\* C1: in every step of the record handler on a nil field (of a nilable
\* kind): a field not annotated optional makes the handler return the
\* "not set" error naming that field; a field annotated optional produces no
\* error and the handler goes on with the next field in declaration order.
C1_NilFieldStep ==
    (AtField /\ Nilable(CurField.val) /\ IsNil(CurField.val))
        => IF Annotated(CurField)
           THEN /\ ret'.st = "none"
                /\ stack' = Rest \o <<[Top EXCEPT !.i = Top.i + 1]>>
                /\ visited' = visited
           ELSE /\ ret' = RetErr(FieldNotSet(CurField))
                /\ stack' = Rest

C1_NilFields == [][C1_NilFieldStep]_vars

\* a nil optional first field was skipped and the nil required second field
\* made the call fail, naming the second field
C1_Witness ==
    /\ pc = "done"
    /\ doc.kind = "Struct"
    /\ NumField(doc) = 2
    /\ doc.fields[1].val.kind = "Ptr" /\ IsNil(doc.fields[1].val) /\ Annotated(doc.fields[1])
    /\ doc.fields[2].val.kind = "Ptr" /\ IsNil(doc.fields[2].val) /\ ~Annotated(doc.fields[2])
    /\ result = RetErr(FieldNotSet(doc.fields[2]))

\* the engine is in handlePtr on a non-nil pointer to a value whose type has
\* a Validate method
AtValidater ==
    /\ Running("handlePtr")
    /\ ~IsNil(Top.v)
    /\ Top.v.elem[1].kind = "Struct"
    /\ Top.v.elem[1].impl # "none"

\* C2: handlePtr on a non-nil pointer whose target type implements Validater
\* returns in that very step, with an error exactly when Validate fails, and
\* makes no call of the dispatcher on the pointed-to value.
C2_ValidaterStep ==
    AtValidater
        => /\ stack' = Rest
           /\ visited' = visited
           /\ validated' = Append(validated, Top.v)
           /\ (ret'.st = "err") = (Top.v.elem[1].impl = "fail")
           /\ (ret'.st = "nil") = (Top.v.elem[1].impl = "pass")

C2_ValidaterExclusive == [][C2_ValidaterStep]_vars

\* a passing Validate made the call succeed although a field underneath
\* holds an empty string
C2_Witness ==
    /\ pc = "done"
    /\ doc = PtrTo(BadInner("pass"))
    /\ result = RetNil
    /\ visited = <<doc>>

\* The failures a traversal of v that visits record fields in declaration
\* order and sequence elements in index order can meet first (one for each
\* order in which the values of the maps can be visited); empty when v is
\* valid.
RECURSIVE FirstFailures(_)
FirstFailures(v) ==
    LET \* the failures met first in a list of sets of failures
        FirstOf(sets) ==
            LET bad == {j \in DOMAIN sets : sets[j] # {}}
            IN  IF bad = {} THEN {}
                ELSE sets[CHOOSE j \in bad : \A k \in bad : j <= k]
        OfField(f) ==
            IF ~Nilable(f.val) THEN {PanicCause}
            ELSE IF IsNil(f.val) THEN (IF Annotated(f) THEN {} ELSE {FieldNotSet(f)[1]})
            ELSE FirstFailures(f.val)
    IN  CASE v.kind = "String" -> IF v.s = "" THEN {StringEmpty(v)[1]} ELSE {}
          [] v.kind = "Ptr" ->
                CASE v.vres = "fail" -> {ValidateError[1]}
                  [] v.vres = "pass" -> {}
                  [] v.vres = "panic" -> {PanicCause}
                  [] OTHER -> IF v.nil THEN {PanicCause} ELSE FirstFailures(v.elem[1])
          [] v.kind = "Struct" -> FirstOf([j \in DOMAIN v.fields |-> OfField(v.fields[j])])
          [] v.kind = "Slice" ->
                IF v.elems = << >> THEN {SliceEmpty(v)[1]}
                ELSE FirstOf([j \in DOMAIN v.elems |-> FirstFailures(v.elems[j])])
          [] v.kind = "Map" ->
                IF DOMAIN v.vals = {} THEN {MapEmpty(v)[1]}
                ELSE UNION {FirstFailures(v.vals[k]) : k \in DOMAIN v.vals}
          [] OTHER -> {}

\* the finished call reports the first failure of the traversal, or success
\* when there is none
C3_FirstReported ==
    (pc = "done" /\ EngineRan)
        => IF FirstFailures(doc) = {}
           THEN result = RetNil
           ELSE Failed(result) /\ Cause(result) \in FirstFailures(doc)

\* after a failure nothing more is visited and no Validate method is called
C3_StopStep ==
    (pc = "validate" /\ Failed(ret))
        => /\ visited' = visited
           /\ validated' = validated
           /\ ret'.st = ret.st

\* C3: validation returns the first failure in depth-first order (fields in
\* declaration order, elements in index order), and once a node has failed no
\* later field or element is visited.
C3_FirstFailureOnly == []C3_FirstReported /\ [][C3_StopStep]_vars

\* a record whose first field holds an empty string and whose second field
\* holds an empty slice: the error is the first field's and the slice was
\* never visited
C3_Witness ==
    /\ pc = "done"
    /\ doc.kind = "Struct"
    /\ NumField(doc) = 2
    /\ doc.fields[1].val = PtrTo(Str(""))
    /\ doc.fields[2].val = Slice(<< >>)
    /\ result = RetErr(SubFieldFailed(PtrTo(Str("")), StringEmpty(Str(""))))
    /\ visited = <<doc, PtrTo(Str("")), Str("")>>

\* the values a collection holds
Entries(v) == IF v.kind = "Map" THEN {v.vals[k] : k \in DOMAIN v.vals}
              ELSE {v.elems[j] : j \in DOMAIN v.elems}
AtCollection == Running("handleArraySlice") \/ Running("handleMap")
EmptyError(v) == IF v.kind = "Map" THEN RetErr(MapEmpty(v)) ELSE RetErr(SliceEmpty(v))

\* the handler of an empty collection returns the empty-collection error;
\* the handler of a collection whose entries are all valid returns nil
C4_Step ==
    /\ (AtCollection /\ LenOf(Top.v) = 0)
          => (stack' = Rest /\ ret' = EmptyError(Top.v))
    /\ (AtCollection /\ LenOf(Top.v) >= 1 /\ stack' = Rest /\ pc' = "validate"
          /\ \A e \in Entries(Top.v) : FirstFailures(e) = {})
          => ret' = RetNil

\* a call on a collection with at least one entry, all valid, succeeds
C4_Done ==
    (pc = "done" /\ EngineRan /\ doc.kind \in {"Slice", "Map"} /\ LenOf(doc) >= 1
        /\ \A e \in Entries(doc) : FirstFailures(e) = {})
        => result = RetNil

\* C4: an empty sequence or mapping that reaches validation always yields the
\* empty-collection failure, whatever the tag of the field holding it; one
\* with at least one entry and only valid entries yields success.
C4_EmptyCollections == []C4_Done /\ [][C4_Step]_vars

\* an empty slice in a field tagged optional made the call fail
C4_Witness ==
    /\ pc = "done"
    /\ doc.kind = "Struct"
    /\ NumField(doc) >= 1
    /\ doc.fields[1].val = Slice(<< >>)
    /\ Annotated(doc.fields[1])
    /\ result = RetErr(SliceEmpty(Slice(<< >>)))

\* C5: in a call of the load operation, while the document has not been
\* fetched and decoded in full the engine has not been entered, and a call
\* that ends without a full decode returns an error.
C5_NoValidationBeforeDecode ==
    (call = "load" /\ decoded # "full")
        => /\ stack = << >>
           /\ visited = << >>
           /\ validated = << >>
           /\ pc # "validate"
           /\ (pc = "done" => result.st = "err")

\* the decode failed, the call returned the error and nothing was validated
C5_Witness ==
    /\ pc = "done"
    /\ call = "load"
    /\ decoded = "partial"
    /\ result = RetErr(<<Seg("Failed to decode JSON, with error, %s", "")>>)
    /\ visited = << >>

\* the dispatcher, given a value of another kind, returns nil in that step
\* and calls nothing
C6_Step ==
    (Running("validate") /\ Top.v.kind = "Other")
        => /\ ret' = RetNil
           /\ stack' = Rest
           /\ visited' = Append(visited, Top.v)
           /\ validated' = validated

\* a call on a value of another kind succeeds
C6_Done == (pc = "done" /\ EngineRan /\ doc.kind = "Other") => result = RetNil

C7_Step ==
    /\ (Running("validate") /\ Top.v.kind = "String")
          => (stack' = Rest \o <<Frame("handleString", Top.v, 0, {})>> /\ ret'.st = "none")
    /\ Running("handleString")
          => /\ stack' = Rest
             /\ ret' = IF Top.v.s = "" THEN RetErr(StringEmpty(Top.v)) ELSE RetNil

\* a call on a string fails exactly when the string is empty
C7_Done ==
    (pc = "done" /\ EngineRan /\ doc.kind = "String") => ((result.st = "err") = (doc.s = ""))

IsPtrFrame(f) == f.h = "handlePtr"
PendingFrames(st) ==
    LET ps == SelectSeq(st, IsPtrFrame)
    IN  [j \in DOMAIN ps |-> SubFieldFailed(ps[j].v, << >>)[1]]

\* an error being returned stays an error with the same cause; a frame of
\* handlePtr puts its "Sub Field of <type>" in front and no other frame
\* changes the message
C8_UnwindStep ==
    (pc = "validate" /\ ret.st = "err" /\ stack # << >>)
        => /\ stack' = Rest
           /\ ret'.st = "err"
           /\ Cause(ret') = Cause(ret)
           /\ PendingFrames(stack') \o ret'.msg = PendingFrames(stack) \o ret.msg

\* a new error is its cause alone, or, from a failing Validate method, the
\* "Validater Field: <type>" frame and the method's error
C8_RaiseStep ==
    (pc = "validate" /\ ret.st # "err" /\ ret'.st = "err")
        => IF Running("handlePtr") /\ Implements(Top.v)
           THEN ret'.msg = ValidaterFailed(Top.v, ValidateError)
           ELSE Len(ret'.msg) = 1

\* the caller gets the error the outermost frame returned
C8_Done == (pc = "done" /\ EngineRan) => result = ret

\* C8: a failure is propagated to the root unchanged in kind and never
\* recovered, gaining one frame naming the referenced type at each enclosing
\* pointer, from the failure outward.
C8_ContextFrames == []C8_Done /\ [][C8_UnwindStep /\ C8_RaiseStep]_vars

\* an empty string behind three pointers: three frames, the outermost first
C8_Witness ==
    /\ pc = "done"
    /\ doc.kind = "Ptr"
    /\ result.st = "err"
    /\ result.msg = <<Seg("Sub Field of %s, failed to validate with error, %s", "Outer"),
                      Seg("Sub Field of %s, failed to validate with error, %s", "Inner"),
                      Seg("Sub Field of %s, failed to validate with error, %s", "string"),
                      Seg("String Field: %s, contains an empty string", "string")>>

\* Validate is called in handlePtr only, and the dispatcher hands a struct
\* to handleStruct without calling it
C9_Step ==
    /\ (validated' # validated /\ pc' = "validate") => Running("handlePtr")
    /\ (Running("validate") /\ Top.v.kind = "Struct")
          => /\ validated' = validated
             /\ stack' = Rest \o <<Frame("handleStruct", Top.v, 0, {})>>
             /\ ret'.st = "none"

\* every value whose Validate method was called is a pointer, and an error
\* of a Validate method comes from such a call
C9_Inv ==
    /\ \A j \in DOMAIN validated : validated[j].kind = "Ptr"
    /\ (pc = "done" /\ result.st = "err" /\ Cause(result) = ValidateError[1])
          => (validated # << >> /\ validated[Len(validated)].vres = "fail")

\* C9: the Validate method is consulted at pointers only: a struct that
\* reaches the dispatcher by value is validated field by field and its
\* Validate method is not called.
C9_ValidateAtPointersOnly == []C9_Inv /\ [][C9_Step]_vars

\* a slice holding, by value, a struct whose Validate method fails: the
\* method was not called and the call succeeded
C9_Witness ==
    /\ pc = "done"
    /\ doc = Slice(<<GoodInner("fail")>>)
    /\ validated = << >>
    /\ result = RetNil

\* C10: two calls of the engine on the same graph agree on success, whatever
\* the order in which each visits the values of the maps.
C10_OrderIndependent ==
    (pc = "done" /\ EngineRan /\ prev.st # "none")
        => ((result.st = "nil") = (prev.st = "nil"))

\* two calls on the same map failed with different errors
C10_Witness ==
    /\ pc = "done"
    /\ doc.kind = "Map"
    /\ prev.st = "err"
    /\ result.st = "err"
    /\ prev.msg # result.msg

====
